---- MODULE Spec2Model ----
(***************************************************************************)
(* Decoder session protocol of libde265-rs: the DecoderInput /             *)
(* DecoderOutput halves over one reference-counted DecoderContext, the     *)
(* push / decode / flush / reset calls, and the Image view that releases   *)
(* its picture when dropped.  The native engine (libde265, reached through *)
(* the de265_* calls) is modelled as a small queueing machine: pending     *)
(* input bytes, a NAL queue, a reorder buffer and an output queue.         *)
(***************************************************************************)
EXTENDS Integers, Sequences, FiniteSets

VARIABLES
    session,       \* "none" | "created" | "failed": outcome of new_decoder
    inputAlive,    \* the DecoderInput half exists
    outputAlive,   \* the DecoderOutput half exists
    strong,        \* strong count of the Rc<DecoderContext>
    eng,           \* the native decoder behind DecoderContext.inner
    images,        \* the live Image views, in creation order
    created,       \* Images constructed so far
    dropped,       \* Images dropped so far
    lastCall,      \* name of the last API call
    lastResult,    \* result of the last decode() call
    stream,        \* the compressed stream: the byte length of each frame
    fed,           \* bytes of the stream that the decoder has taken so far
    pc,            \* position in decode_h265 ("free": an arbitrary caller)
    images_count,  \* decode_h265's counter
    obs,           \* observations of the run, read by the properties only
    peer,          \* a second session, running decode_h265 on the same stream
    ffi            \* one native answer and what the safe layer makes of it

vars == <<session, inputAlive, outputAlive, strong, eng, images, created,
          dropped, lastCall, lastResult, stream, fed, pc, images_count, obs,
          peer, ffi>>

(***************************************************************************)
(* Bounds.                                                                 *)
(***************************************************************************)
MaxFrames == 3
MaxFrameLen == 2
MaxChunk == 3
ReorderDepth == 1
IntBits == 12

\* The range of the native int (c_int, i32), IntBits wide.
i32_MIN == -(2 ^ (IntBits - 1))

i32_MAX == (2 ^ (IntBits - 1)) - 1
Edge == 2

\* Pictures the decoded picture buffer can hold: a valid stream announces
\* more buffers than its reorder depth.
DpbSize == ReorderDepth + 1

\* The streams: n frames of the same byte length.
Streams == {[k \in 1..n |-> l] : n \in 1..MaxFrames, l \in 1..MaxFrameLen}

RECURSIVE SumTo(_, _)
SumTo(s, k) == IF k = 0 THEN 0 ELSE s[k] + SumTo(s, k - 1)

Total(s) == SumTo(s, Len(s))

\* The byte at offset p (0-based) of stream s: the first byte of frame k
\* carries its start code and header, the others are payload.
ByteAt(s, p) ==
    IF \E k \in 1..Len(s) : SumTo(s, k - 1) = p
    THEN LET k == CHOOSE k \in 1..Len(s) : SumTo(s, k - 1) = p
         IN  [start |-> TRUE, frame |-> k, len |-> s[k]]
    ELSE [start |-> FALSE, frame |-> 0, len |-> 0]

Bytes(s, p, n) == [i \in 1..n |-> ByteAt(s, p + i - 1)]

AtFrameStart(s, p) == p < Total(s) /\ ByteAt(s, p).start

\* A user_data pointer as the engine holds it: an address it never reads.
NullPtr == [addr |-> 0]

NoNal == [frame |-> 0, bytes |-> 0, len |-> 0, tag |-> NullPtr]
NoPicture == 0

(***************************************************************************)
(* The native engine behind the de265_* calls.  Its state:                 *)
(*   handle   "null" | "live" | "freed"                                    *)
(*   pending  the NAL unit being assembled from pushed bytes               *)
(*   nalQueue complete NAL units waiting to be decoded                     *)
(*   reorder  decoded pictures not yet released for output                 *)
(*   outQueue decoded pictures ready for the caller, head first            *)
(*   eos      end of stream was signalled                                  *)
(*   userData the user_data pointer stored with each decoded picture       *)
(*   nFree, nRelease  calls of de265_free_decoder and of                   *)
(*            de265_release_next_picture received                          *)
(*   stale    names of the calls received after the handle was freed       *)
(*   calls    the native calls received since the API call in progress     *)
(*            began, each with the de265_error it returned ("void" for a   *)
(*            call that returns none)                                      *)
(*   fault    the de265_error the engine will answer to its next push,     *)
(*            flush or thread start ("DE265_OK": none is due)              *)
(***************************************************************************)
EngNull ==
    [handle |-> "null", pending |-> NoNal, nalQueue |-> <<>>, reorder |-> <<>>,
     outQueue |-> <<>>, eos |-> FALSE,
     userData |-> [p \in 1..MaxFrames |-> NullPtr],
     nFree |-> 0, nRelease |-> 0, stale |-> {},
     calls |-> <<>>, fault |-> "DE265_OK"]

de265_new_decoder(ok) ==
    IF ok THEN [EngNull EXCEPT !.handle = "live"] ELSE EngNull

\* Every native call dereferences the handle it is given.
Touch(e, name) ==
    [e EXCEPT !.calls = Append(@, [fn |-> name, ret |-> "void"]),
              !.stale = IF e.handle = "live" THEN @ ELSE @ \cup {name}]

\* The native call in progress returns a de265_error.
Return(e, status) == [e EXCEPT !.calls[Len(e.calls)].ret = status]

\* A push, flush or thread start: the engine answers the fault that is due,
\* leaving its queues alone, or does the work and answers DE265_OK.
Answering(e, done) ==
    IF e.fault # "DE265_OK"
    THEN Return([e EXCEPT !.fault = "DE265_OK"], e.fault)
    ELSE Return(done, "DE265_OK")

de265_free_decoder(e) ==
    [Touch(e, "de265_free_decoder") EXCEPT !.handle = "freed", !.nFree = @ + 1]

\* One byte of a bytestream with start codes: a start code closes the NAL
\* unit being assembled and opens the next one; payload outside any NAL unit
\* is skipped.  The NAL unit opened by a start code takes the user_data of
\* the call that contains the start code.
PushByte(e, b, user_data) ==
    IF b.start
    THEN [e EXCEPT !.nalQueue = IF e.pending.bytes > 0
                                THEN Append(@, e.pending) ELSE @,
                   !.pending = [frame |-> b.frame, bytes |-> 1, len |-> b.len,
                                tag |-> user_data]]
    ELSE IF e.pending.bytes > 0
         THEN [e EXCEPT !.pending.bytes = @ + 1]
         ELSE e

RECURSIVE PushBytes(_, _, _)
PushBytes(e, data, user_data) ==
    IF data = <<>> THEN e
    ELSE PushBytes(PushByte(e, Head(data), user_data), Tail(data), user_data)

\* The presentation time stamp travels like user_data; it is not followed
\* here.
de265_push_data(e, data, pts, user_data) ==
    LET t == Touch(e, "de265_push_data")
    IN  Answering(t, PushBytes(t, data, user_data))

de265_push_NAL(e, data, pts, user_data) ==
    LET t == Touch(e, "de265_push_NAL")
    IN  Answering(t,
            [t EXCEPT
                !.nalQueue = Append(@, [frame |-> data.frame,
                                        bytes |-> data.bytes,
                                        len |-> data.len, tag |-> user_data])])

de265_flush_data(e) ==
    LET t == Touch(e, "de265_flush_data")
    IN  Answering(t,
            [t EXCEPT
                !.nalQueue = IF e.pending.bytes > 0
                             THEN Append(@, e.pending) ELSE @,
                !.pending = NoNal,
                !.eos = TRUE])

de265_start_worker_threads(e, number_of_threads) ==
    LET t == Touch(e, "de265_start_worker_threads")
    IN  Answering(t, t)

RECURSIVE QueuedBytes(_)
QueuedBytes(q) == IF q = <<>> THEN 0 ELSE Head(q).bytes + QueuedBytes(Tail(q))

\* The bytes at the decoder input: those of the NAL unit being assembled
\* and those of the queued NAL units, which decoding consumes.
de265_get_number_of_input_bytes_pending(e) ==
    e.pending.bytes + QueuedBytes(e.nalQueue)

de265_get_number_of_NAL_units_pending(e) == Len(e.nalQueue)

de265_reset(e) ==
    [Touch(e, "de265_reset") EXCEPT
        !.pending = NoNal, !.nalQueue = <<>>, !.reorder = <<>>,
        !.outQueue = <<>>, !.eos = FALSE,
        !.userData = [p \in 1..MaxFrames |-> NullPtr]]

de265_peek_next_picture(e) ==
    IF e.outQueue = <<>> THEN NoPicture ELSE Head(e.outQueue)

\* Releases whatever picture is at the head of the output queue; with an
\* empty queue the request is ignored.
de265_release_next_picture(e) ==
    [Touch(e, "de265_release_next_picture") EXCEPT
        !.outQueue = IF @ = <<>> THEN @ ELSE Tail(@),
        !.nRelease = @ + 1]

DpbFull(e) == Len(e.reorder) + Len(e.outQueue) >= DpbSize

\* The picture decoded from a NAL unit enters the reorder buffer with the
\* NAL unit's user_data; pictures beyond the reorder depth move on to the
\* output queue.
StorePicture(e, nal) ==
    LET r == Append(e.reorder, nal.frame)
        f == [e EXCEPT !.userData[nal.frame] = nal.tag]
    IN  IF Len(r) > ReorderDepth
        THEN [f EXCEPT !.reorder = Tail(r), !.outQueue = Append(@, Head(r))]
        ELSE [f EXCEPT !.reorder = r]

de265_get_image_user_data(e, pic) == e.userData[pic]

\* One step of decoding: the new engine state, the status and `more`.
DecodeStep(e) ==
        IF e.nalQueue = <<>> /\ e.eos
        THEN LET f == [e EXCEPT !.outQueue = @ \o e.reorder, !.reorder = <<>>]
             IN  [eng |-> f, status |-> "DE265_OK", more |-> Len(f.outQueue)]
        ELSE IF e.nalQueue = <<>>
        THEN [eng |-> e, status |-> "DE265_ERROR_WAITING_FOR_INPUT_DATA", more |-> 1]
        ELSE IF DpbFull(e)
        THEN [eng |-> e, status |-> "DE265_ERROR_IMAGE_BUFFER_FULL", more |-> 1]
        ELSE LET nal  == Head(e.nalQueue)
                 rest == [e EXCEPT !.nalQueue = Tail(@)]
             IN  IF nal.bytes = nal.len
                 THEN [eng |-> StorePicture(rest, nal),
                       status |-> "DE265_OK", more |-> 1]
                 ELSE [eng |-> rest,
                       status |-> "DE265_ERROR_PREMATURE_END_OF_SLICE", more |-> 0]

de265_decode(e0) ==
    LET r == DecodeStep(Touch(e0, "de265_decode"))
    IN  [r EXCEPT !.eng = Return(r.eng, r.status)]

(***************************************************************************)
(* The safe layer: errors.rs, decoder.rs, image.rs.                        *)
(***************************************************************************)
\* The arms of the match in DeError::from_raw after DE265_OK, in the order
\* of the source: the native code, named as in libde265_sys, and its kind.
ErrorKinds ==
    <<
       <<"DE265_ERROR_NO_SUCH_FILE",
         "ErrorNoSuchFile">>,
       <<"DE265_ERROR_COEFFICIENT_OUT_OF_IMAGE_BOUNDS",
         "ErrorCoefficientOutOfImageBounds">>,
       <<"DE265_ERROR_CHECKSUM_MISMATCH",
         "ErrorChecksumMismatch">>,
       <<"DE265_ERROR_CTB_OUTSIDE_IMAGE_AREA",
         "ErrorCtbOutsideImageArea">>,
       <<"DE265_ERROR_OUT_OF_MEMORY",
         "ErrorOutOfMemory">>,
       <<"DE265_ERROR_CODED_PARAMETER_OUT_OF_RANGE",
         "ErrorCodedParameterOutOfRange">>,
       <<"DE265_ERROR_IMAGE_BUFFER_FULL",
         "ErrorImageBufferFull">>,
       <<"DE265_ERROR_CANNOT_START_THREADPOOL",
         "ErrorCannotStartThreadpool">>,
       <<"DE265_ERROR_LIBRARY_INITIALIZATION_FAILED",
         "ErrorLibraryInitializationFailed">>,
       <<"DE265_ERROR_LIBRARY_NOT_INITIALIZED",
         "ErrorLibraryNotInitialized">>,
       <<"DE265_ERROR_WAITING_FOR_INPUT_DATA",
         "ErrorWaitingForInputData">>,
       <<"DE265_ERROR_CANNOT_PROCESS_SEI",
         "ErrorCannotProcessSei">>,
       <<"DE265_ERROR_PARAMETER_PARSING",
         "ErrorParameterParsing">>,
       <<"DE265_ERROR_NO_INITIAL_SLICE_HEADER",
         "ErrorNoInitialSliceHeader">>,
       <<"DE265_ERROR_PREMATURE_END_OF_SLICE",
         "ErrorPrematureEndOfSlice">>,
       <<"DE265_ERROR_UNSPECIFIED_DECODING_ERROR",
         "ErrorUnspecifiedDecodingError">>,
       <<"DE265_ERROR_NOT_IMPLEMENTED_YET",
         "ErrorNotImplementedYet">>,
       <<"DE265_WARNING_NO_WPP_CANNOT_USE_MULTITHREADING",
         "WarningNoWppCannotUseMultithreading">>,
       <<"DE265_WARNING_WARNING_BUFFER_FULL",
         "WarningWarningBufferFull">>,
       <<"DE265_WARNING_PREMATURE_END_OF_SLICE_SEGMENT",
         "WarningPrematureEndOfSliceSegment">>,
       <<"DE265_WARNING_INCORRECT_ENTRY_POINT_OFFSET",
         "WarningIncorrectEntryPointOffset">>,
       <<"DE265_WARNING_CTB_OUTSIDE_IMAGE_AREA",
         "WarningCtbOutsideImageArea">>,
       <<"DE265_WARNING_SPS_HEADER_INVALID",
         "WarningSpsHeaderInvalid">>,
       <<"DE265_WARNING_PPS_HEADER_INVALID",
         "WarningPpsHeaderInvalid">>,
       <<"DE265_WARNING_SLICEHEADER_INVALID",
         "WarningSliceHeaderInvalid">>,
       <<"DE265_WARNING_INCORRECT_MOTION_VECTOR_SCALING",
         "WarningIncorrectMotionVectorScaling">>,
       <<"DE265_WARNING_NONEXISTING_PPS_REFERENCED",
         "WarningNonexistingPpsReferenced">>,
       <<"DE265_WARNING_NONEXISTING_SPS_REFERENCED",
         "WarningNonexistingSpsReferenced">>,
       <<"DE265_WARNING_BOTH_PREDFLAGS_ZERO",
         "WarningBothPredFlagsZero">>,
       <<"DE265_WARNING_NONEXISTING_REFERENCE_PICTURE_ACCESSED",
         "WarningNonexistingReferencePictureAccessed">>,
       <<"DE265_WARNING_NUMMVP_NOT_EQUAL_TO_NUMMVQ",
         "WarningNumMvpNotEqualToNumMvq">>,
       <<"DE265_WARNING_NUMBER_OF_SHORT_TERM_REF_PIC_SETS_OUT_OF_RANGE",
         "WarningNumberOfShortTermRefPicSetsOutOfRange">>,
       <<"DE265_WARNING_SHORT_TERM_REF_PIC_SET_OUT_OF_RANGE",
         "WarningShortTermRefPicSetOutOfRange">>,
       <<"DE265_WARNING_FAULTY_REFERENCE_PICTURE_LIST",
         "WarningFaultyReferencePictureList">>,
       <<"DE265_WARNING_EOSS_BIT_NOT_SET",
         "WarningEossBitNotSet">>,
       <<"DE265_WARNING_MAX_NUM_REF_PICS_EXCEEDED",
         "WarningMaxNumRefPicsExceeded">>,
       <<"DE265_WARNING_INVALID_CHROMA_FORMAT",
         "WarningInvalidChromaFormat">>,
       <<"DE265_WARNING_SLICE_SEGMENT_ADDRESS_INVALID",
         "WarningSliceSegmentAddressInvalid">>,
       <<"DE265_WARNING_DEPENDENT_SLICE_WITH_ADDRESS_ZERO",
         "WarningDependentSliceWithAddressZero">>,
       <<"DE265_WARNING_NUMBER_OF_THREADS_LIMITED_TO_MAXIMUM",
         "WarningNumberOfThreadsLimitedToMaximum">>,
       <<"DE265_NON_EXISTING_LT_REFERENCE_CANDIDATE_IN_SLICE_HEADER",
         "WarningNonExistingLtReferenceCandidateInSliceHeader">>,
       <<"DE265_WARNING_CANNOT_APPLY_SAO_OUT_OF_MEMORY",
         "WarningCannotApplySaoOutOfMemory">>,
       <<"DE265_WARNING_SPS_MISSING_CANNOT_DECODE_SEI",
         "WarningSpsMissingCannotDecodeSei">>,
       <<"DE265_WARNING_COLLOCATED_MOTION_VECTOR_OUTSIDE_IMAGE_AREA",
         "WarningCollocatedMotionVectorOutsideImageArea">>,
       <<"DE265_WARNING_PCM_BITDEPTH_TOO_LARGE",
         "WarningPcmBitDepthTooLarge">>,
       <<"DE265_WARNING_REFERENCE_IMAGE_BIT_DEPTH_DOES_NOT_MATCH",
         "WarningReferenceImageBitDepthDoesNotMatch">>,
       <<"DE265_WARNING_REFERENCE_IMAGE_SIZE_DOES_NOT_MATCH_SPS",
         "WarningReferenceImageSizeDoesNotMatchSps">>,
       <<"DE265_WARNING_CHROMA_OF_CURRENT_IMAGE_DOES_NOT_MATCH_SPS",
         "WarningChromaOfCurrentImageDoesNotMatchSps">>,
       <<"DE265_WARNING_BIT_DEPTH_OF_CURRENT_IMAGE_DOES_NOT_MATCH_SPS",
         "WarningBitDepthOfCurrentImageDoesNotMatchSps">>,
       <<"DE265_WARNING_REFERENCE_IMAGE_CHROMA_FORMAT_DOES_NOT_MATCH",
         "WarningReferenceImageChromaFormatDoesNotMatch">>,
       <<"DE265_WARNING_INVALID_SLICE_HEADER_INDEX_ACCESS",
         "WarningInvalidSliceHeaderIndexAccess">>
    >>

KnownCodes == {"DE265_OK"} \cup {ErrorKinds[i][1] : i \in DOMAIN ErrorKinds}

\* Values of de265_error that no constant of libde265_sys names.
UnknownCodes == {"0x2710", "0x7fffffff", "0xffffffff"}

Codes == KnownCodes \cup UnknownCodes

NoCode == ""

u8_MAX == 255

Ok(kind) == [ok |-> TRUE, kind |-> kind, code |-> NoCode]

Err(kind, code) == [ok |-> FALSE, kind |-> kind, code |-> code]

\* The arm of the match that raw takes: the first whose code is raw, 0 for
\* the catch-all arm.
ArmOf ==
    [c \in KnownCodes \ {"DE265_OK"} |->
        CHOOSE i \in DOMAIN ErrorKinds :
            /\ ErrorKinds[i][1] = c
            /\ \A j \in 1..(i - 1) : ErrorKinds[j][1] # c]

Arm(raw) == IF raw \in DOMAIN ArmOf THEN ArmOf[raw] ELSE 0

from_raw_forgetting(raw) ==
    IF raw = "DE265_OK"
    THEN Ok("Ok")
    ELSE IF Arm(raw) # 0
         THEN Err(ErrorKinds[Arm(raw)][2], NoCode)
         ELSE Err("Unknown", "0x0")

\* DeError::from_raw: Ok(()) for DE265_OK, the kind of the first arm that
\* matches, and Unknown(raw) when none does.
from_raw(raw) ==
    IF raw = "DE265_OK"
    THEN Ok("Ok")
    ELSE IF Arm(raw) # 0
         THEN Err(ErrorKinds[Arm(raw)][2], NoCode)
         ELSE Err("Unknown", raw)

DecodeResultInverted(raw, more) ==
    IF from_raw(raw).ok
    THEN Ok(IF more > 0 THEN "Done" ELSE "HasImagesInBuffer")
    ELSE from_raw(raw)

DecodeResultOffByOne(raw, more) ==
    IF from_raw(raw).ok
    THEN Ok(IF more > 1 THEN "HasImagesInBuffer" ELSE "Done")
    ELSE from_raw(raw)

DecodeResultMoreFirst(raw, more) ==
    IF more > 0
    THEN Ok("HasImagesInBuffer")
    ELSE IF from_raw(raw).ok THEN Ok("Done") ELSE from_raw(raw)

\* DecoderInput::decode: the status through from_raw, then `more`.
DecodeResult(raw, more) ==
    IF from_raw(raw).ok
    THEN Ok(IF more > 0 THEN "HasImagesInBuffer" ELSE "Done")
    ELSE from_raw(raw)

NullUnchecked(e) == FALSE

\* decoder_context_ptr.is_null() in new_decoder.
is_null(e) == e.handle = "null"

StrongNotShared(n) == n

\* context.clone(): one more strong reference to the same DecoderContext.
StrongAfterClone(n) == n + 1

DecoderContextNeverFreed(e) == e

\* impl Drop for DecoderContext.
DecoderContext_drop(e) ==
    IF e.handle # "null" THEN de265_free_decoder(e) ELSE e

\* Dropping one Rc<DecoderContext>: the context is dropped with the last one.
Rc_drop(n, e) == IF n = 1 THEN DecoderContext_drop(e) ELSE e

ImageDropLeaks(e) == e

\* impl Drop for Image.
Image_drop(e) == de265_release_next_picture(e)

NeverSome(ptr) == <<>>

AlwaysSome(ptr) == <<[inner |-> ptr]>>

\* NonNull::new(image_ptr).map(|p| Image::new(..)): the Option as a sequence
\* of at most one Image.
ImageOption(ptr) ==
    IF ptr # NoPicture THEN <<[inner |-> ptr]>> ELSE <<>>

\* `user_data as _` in push_data and push_nal: usize to *mut c_void.
usize_as_ptr(u) == [addr |-> u]

\* `ptr as usize` in Image::user_data.
ptr_as_usize(ptr) == ptr.addr

push_data_ffi_swapped(e, data, pts, user_data) ==
    de265_push_data(e, data, pts, usize_as_ptr(pts))

push_data_ffi_decoding(e, data, pts, user_data) ==
    de265_decode(de265_push_data(e, data, pts, usize_as_ptr(user_data))).eng

\* The native call of DecoderInput::push_data.
push_data_ffi(e, data, pts, user_data) ==
    de265_push_data(e, data, pts, usize_as_ptr(user_data))

\* The native call of DecoderInput::push_nal.
push_nal_ffi(e, data, pts, user_data) ==
    de265_push_NAL(e, data, pts, usize_as_ptr(user_data))

\* Image::user_data.
Image_user_data(e, img) == ptr_as_usize(de265_get_image_user_data(e, img.inner))

Max(a, b) == IF a >= b THEN a ELSE b

Min(a, b) == IF a <= b THEN a ELSE b

\* The casts of a native int: `as u32` keeps the width and reads the bits as
\* unsigned, `as usize` extends the sign to twice the width first, `as u8`
\* keeps the low eight bits.
as_u32(x) == x % (2 ^ IntBits)

as_usize(x) == x % (2 ^ (2 * IntBits))

as_u8(x) == x % (u8_MAX + 1)

\* Image::width, height, bits_per_pixel and DecoderInput::highest_tid,
\* current_tid: value.max(0) as u32.
max0_as_u32(value) == as_u32(Max(value, 0))

\* DecoderInput::number_of_input_bytes_pending and
\* number_of_nal_units_pending: value.max(0) as usize.
max0_as_usize(value) == as_usize(Max(value, 0))

\* c_int_to_u8, for the NAL header fields and the colour metadata: the
\* debug_assert! panics in a build with debug assertions.
c_int_to_u8(value, debug_assertions) ==
    IF debug_assertions /\ value \notin 0..u8_MAX
    THEN [panic |-> TRUE, value |-> 0]
    ELSE [panic |-> FALSE, value |-> as_u8(Min(Max(value, 0), u8_MAX))]

\* Channel::index.
Channel_index == [Y |-> 0, Cb |-> 1, Cr |-> 2]

plane_stride_unclamped(buf_is_null, stride, height) ==
    IF buf_is_null
    THEN [len |-> 0, stride |-> 0]
    ELSE LET stride_usize == as_usize(stride)
             size == as_usize(stride_usize * as_usize(max0_as_u32(height)))
         IN  [len |-> size, stride |-> stride_usize]

\* Image::plane: whether de265_get_image_plane returned a null buffer, the
\* stride it reported, and the native height of the channel; the length of
\* the slice and the stride returned.
plane(buf_is_null, stride, height) ==
    IF buf_is_null
    THEN [len |-> 0, stride |-> 0]
    ELSE LET stride_usize == as_usize(Max(stride, 0))
             size == as_usize(stride_usize * as_usize(max0_as_u32(height)))
         IN  [len |-> size, stride |-> stride_usize]

\* The handle an API call hands to its native calls: the call begins.
Enter(e) == [e EXCEPT !.calls = <<>>]

\* The de265_error that the native call just made returned.
Ret(e) == e.calls[Len(e.calls)].ret

Result_swallowed(e) == Ok("Ok")

\* The Result<()> of push_data, push_nal, flush_data and
\* start_worker_threads: DeError::from_raw(result).
Result_of(e) == from_raw(Ret(e))

decode_ffi_retrying(e) ==
    LET r == de265_decode(e)
    IN  IF r.status \in {"DE265_ERROR_WAITING_FOR_INPUT_DATA",
                         "DE265_ERROR_IMAGE_BUFFER_FULL"}
        THEN de265_decode(r.eng)
        ELSE r

\* The native call of DecoderInput::decode.
decode_ffi(e) == de265_decode(e)

\* The native call of DecoderInput::start_worker_threads.
start_worker_threads_ffi(e, num_threads) ==
    de265_start_worker_threads(e, Min(num_threads, i32_MAX))

number_of_input_bytes_pending_flushing(e) ==
    [eng |-> de265_flush_data(e),
     value |-> Max(de265_get_number_of_input_bytes_pending(e), 0)]

\* DecoderInput::number_of_input_bytes_pending: the native call it makes and
\* the value it returns.
number_of_input_bytes_pending_call(e) ==
    [eng |-> Touch(e, "de265_get_number_of_input_bytes_pending"),
     value |-> Max(de265_get_number_of_input_bytes_pending(e), 0)]

next_picture_ffi_taking(e) ==
    [eng |-> [Touch(e, "de265_get_next_picture") EXCEPT
                 !.outQueue = IF @ = <<>> THEN @ ELSE Tail(@)],
     ptr |-> de265_peek_next_picture(e)]

\* The native call of DecoderOutput::next_picture and the pointer it got.
next_picture_ffi(e) ==
    [eng |-> Touch(e, "de265_peek_next_picture"),
     ptr |-> de265_peek_next_picture(e)]

OutputNeverBorrowed == FALSE

\* next_picture(&mut self) -> Option<Image<'_>>: a live Image holds the
\* mutable borrow of its DecoderOutput.
OutputBorrowed == images # <<>>

(***************************************************************************)
(* The API calls.  Each is the whole call: the native calls it makes and   *)
(* what it returns.  The caller's own variables (pc, images_count) are     *)
(* set by the caller's step that makes the call.                           *)
(***************************************************************************)
\* No native answer under conversion: the value of ffi throughout a session.
FfiIdle == [fn |-> "none", in |-> <<>>, out |-> <<>>, done |-> FALSE]

ObsInit ==
    [afterFull |-> "no", retry |-> "none", sinceDone |-> FALSE,
     doneRetry |-> "none", misrelease |-> FALSE,
     sent |-> [k \in 1..MaxFrames |-> 0], userData |-> 0,
     pendingSeen |-> -1, touched |-> FALSE, repeat |-> "none",
     newDecoder |-> "none",
     skipped |-> FALSE, result |-> "none"]
\* obs.sent[k] is the user_data that went in with the start of frame k.
\* obs.pendingSeen is what the last number_of_input_bytes_pending() returned
\* (-1: none, or a push or decode came after it), obs.touched whether a
\* flush_data or reset came after it, and obs.repeat how the value of a
\* repeated query compared with it.
\* obs.skipped is whether the drop of an Image took a picture that no Image
\* had shown off the output queue.
\* obs.result is what the last push_data, push_nal, flush_data or
\* start_worker_threads returned.

\* The frames whose start code lies in the n bytes at offset p of stream s.
StartsIn(s, p, n) ==
    {ByteAt(s, p + i - 1).frame : i \in {j \in 1..n : ByteAt(s, p + j - 1).start}}

\* new_decoder(): `ok` is whether de265_new_decoder returned a handle.
\* obs.newDecoder is what new_decoder() returned.
new_decoder(ok) ==
    /\ session = "none"
    /\ lastCall' = "new_decoder"
    /\ LET decoder_context_ptr == de265_new_decoder(ok)
       IN  IF is_null(decoder_context_ptr)
           THEN /\ session' = "failed"
                /\ obs' = [obs EXCEPT
                       !.newDecoder = "ErrorLibraryInitializationFailed"]
                /\ UNCHANGED <<eng, strong, inputAlive, outputAlive>>
           ELSE /\ session' = "created"
                /\ obs' = [obs EXCEPT !.newDecoder = "Ok"]
                /\ eng' = decoder_context_ptr
                /\ strong' = StrongAfterClone(1)
                /\ inputAlive' = TRUE
                /\ outputAlive' = TRUE
    /\ UNCHANGED <<images, created, dropped, lastResult, stream, ffi, fed>>

\* DecoderInput::push_data with the next n bytes of the stream.
push_data(n, pts, user_data) ==
    /\ inputAlive
    /\ fed + n <= Total(stream)
    /\ eng' = push_data_ffi(Enter(eng), Bytes(stream, fed, n), pts, user_data)
    /\ fed' = IF Result_of(eng').ok THEN fed + n ELSE fed
    /\ lastCall' = "push_data"
    /\ obs' = [obs EXCEPT
           !.result = Result_of(eng'),
           !.sinceDone = FALSE,
           !.pendingSeen = -1, !.touched = FALSE, !.repeat = "none",
           !.sent = [k \in 1..MaxFrames |->
                        IF k \in StartsIn(stream, fed, n) THEN user_data ELSE @[k]]]
    /\ UNCHANGED <<session, inputAlive, outputAlive, strong, images, created,
                   dropped, lastResult, stream, ffi>>

\* DecoderInput::push_nal with the next frame of the stream as one NAL unit.
push_nal(pts, user_data) ==
    /\ inputAlive
    /\ AtFrameStart(stream, fed)
    /\ LET b == ByteAt(stream, fed)
       IN  /\ eng' = push_nal_ffi(Enter(eng),
                                   [frame |-> b.frame, bytes |-> b.len,
                                    len |-> b.len], pts, user_data)
           /\ fed' = IF Result_of(eng').ok THEN fed + b.len ELSE fed
           /\ obs' = [obs EXCEPT !.result = Result_of(eng'),
                                 !.sinceDone = FALSE,
                                 !.pendingSeen = -1, !.touched = FALSE,
                                 !.repeat = "none",
                                 !.sent[b.frame] = user_data]
    /\ lastCall' = "push_nal"
    /\ UNCHANGED <<session, inputAlive, outputAlive, strong, images, created,
                   dropped, lastResult, stream, ffi>>

\* DecoderInput::flush_data.
flush_data ==
    /\ inputAlive
    /\ eng' = de265_flush_data(Enter(eng))
    /\ lastCall' = "flush_data"
    /\ obs' = [obs EXCEPT !.result = Result_of(eng'),
                          !.sinceDone = FALSE,
                          !.touched = (obs.pendingSeen # -1),
                          !.repeat = "none"]
    /\ UNCHANGED <<session, inputAlive, outputAlive, strong, images, created,
                   dropped, lastResult, stream, ffi, fed>>

Pictures(e) == Len(e.reorder) + Len(e.outQueue)

\* DecoderInput::decode.
decode ==
    /\ inputAlive
    /\ LET r   == decode_ffi(Enter(eng))
           res == DecodeResult(r.status, r.more).kind
       IN  /\ eng' = r.eng
           /\ lastResult' = res
           /\ obs' = [obs EXCEPT
                  !.afterFull = IF res = "ErrorImageBufferFull" THEN "full" ELSE "no",
                  !.retry = IF obs.afterFull = "drained"
                            THEN IF Len(r.eng.nalQueue) < Len(eng.nalQueue)
                                 THEN "progress" ELSE "stuck"
                            ELSE @,
                  !.sinceDone = (res = "Done"),
                  !.pendingSeen = -1, !.touched = FALSE, !.repeat = "none",
                  !.doneRetry = IF obs.sinceDone
                                THEN IF Pictures(r.eng) > Pictures(eng)
                                        \/ Len(r.eng.outQueue) > Len(eng.outQueue)
                                     THEN "more" ELSE "same"
                                ELSE @]
    /\ lastCall' = "decode"
    /\ UNCHANGED <<session, inputAlive, outputAlive, strong, images, created,
                   dropped, stream, ffi, fed>>

\* DecoderInput::start_worker_threads.
start_worker_threads(num_threads) ==
    /\ inputAlive
    /\ eng' = start_worker_threads_ffi(Enter(eng), num_threads)
    /\ lastCall' = "start_worker_threads"
    /\ obs' = [obs EXCEPT !.result = Result_of(eng')]
    /\ UNCHANGED <<session, inputAlive, outputAlive, strong, images, created,
                   dropped, lastResult, stream, ffi, fed>>

\* DecoderInput::number_of_input_bytes_pending.
number_of_input_bytes_pending ==
    /\ inputAlive
    /\ LET r == number_of_input_bytes_pending_call(Enter(eng))
       IN  /\ eng' = r.eng
           /\ obs' = [obs EXCEPT
                  !.pendingSeen = r.value,
                  !.touched = FALSE,
                  !.repeat = IF obs.pendingSeen = -1 THEN "none"
                             ELSE IF r.value = obs.pendingSeen THEN "same"
                             ELSE IF obs.touched THEN "differs"
                             ELSE "differsQuiet"]
    /\ lastCall' = "number_of_input_bytes_pending"
    /\ UNCHANGED <<session, inputAlive, outputAlive, strong, images, created,
                   dropped, lastResult, stream, ffi, fed>>

\* DecoderInput::reset.
reset ==
    /\ inputAlive
    /\ eng' = de265_reset(Enter(eng))
    /\ lastCall' = "reset"
    /\ obs' = [obs EXCEPT !.afterFull = "no",
                          !.touched = (obs.pendingSeen # -1),
                          !.repeat = "none"]
    /\ UNCHANGED <<session, inputAlive, outputAlive, strong, images, created,
                   dropped, lastResult, stream, ffi, fed>>

\* DecoderOutput::next_picture.
next_picture ==
    /\ outputAlive
    /\ ~OutputBorrowed
    /\ LET r   == next_picture_ffi(Enter(eng))
           opt == ImageOption(r.ptr)
       IN  /\ images' = images \o opt
           /\ created' = created + Len(opt)
           /\ obs' = [obs EXCEPT
                  !.afterFull = IF @ = "full" /\ opt = <<>> THEN "drained" ELSE @]
           /\ eng' = r.eng
    /\ lastCall' = "next_picture"
    /\ UNCHANGED <<session, inputAlive, outputAlive, strong, dropped,
                   lastResult, stream, ffi, fed>>

Remove(s, i) == [j \in 1..(Len(s) - 1) |-> IF j < i THEN s[j] ELSE s[j + 1]]

\* The i-th live Image goes out of scope.
drop_image(i) ==
    /\ i \in 1..Len(images)
    /\ eng' = Image_drop(Enter(eng))
    /\ images' = Remove(images, i)
    /\ dropped' = dropped + 1
    /\ obs' = [obs EXCEPT
           !.misrelease = @ \/ de265_peek_next_picture(eng) # images[i].inner,
           !.skipped = @ \/ de265_peek_next_picture(eng)
                                \notin {NoPicture, images[i].inner}]
    /\ lastCall' = "drop_image"
    /\ UNCHANGED <<session, inputAlive, outputAlive, strong, created,
                   lastResult, stream, ffi, fed>>

\* An accessor of the i-th live Image (width, height, plane, ..): a native
\* read of the picture, which lives in the decoder behind the handle.
image_accessor(i) ==
    /\ i \in 1..Len(images)
    /\ eng' = Touch(Enter(eng), "de265_get_image")
    /\ lastCall' = "image_accessor"
    /\ UNCHANGED <<session, inputAlive, outputAlive, strong, images, created,
                   dropped, lastResult, stream, ffi, fed, obs>>

\* Image::user_data of the i-th live Image.
user_data(i) ==
    /\ i \in 1..Len(images)
    /\ eng' = Touch(Enter(eng), "de265_get_image_user_data")
    /\ obs' = [obs EXCEPT !.userData = Image_user_data(eng, images[i])]
    /\ lastCall' = "user_data"
    /\ UNCHANGED <<session, inputAlive, outputAlive, strong, images, created,
                   dropped, lastResult, stream, ffi, fed>>

\* The DecoderInput goes out of scope.
drop_input ==
    /\ inputAlive
    /\ inputAlive' = FALSE
    /\ strong' = strong - 1
    /\ eng' = Rc_drop(strong, Enter(eng))
    /\ lastCall' = "drop_input"
    /\ UNCHANGED <<session, outputAlive, images, created, dropped, lastResult,
                   stream, ffi, fed, obs>>

\* The DecoderOutput goes out of scope; the borrow checker rejects this
\* while an Image borrows it.
drop_output ==
    /\ outputAlive
    /\ ~OutputBorrowed
    /\ outputAlive' = FALSE
    /\ strong' = strong - 1
    /\ eng' = Rc_drop(strong, Enter(eng))
    /\ lastCall' = "drop_output"
    /\ UNCHANGED <<session, inputAlive, images, created, dropped, lastResult,
                   stream, ffi, fed, obs>>

\* The second session before its new_decoder().
PeerInit ==
    [pc |-> "new", handle |-> "none", eng |-> EngNull, strong |-> 0,
     images |-> <<>>, images_count |-> 0, yielded |-> <<>>, fed |-> 0,
     lastResult |-> "None"]

(***************************************************************************)
(* An arbitrary caller: any call the types allow, in any order.            *)
(***************************************************************************)
Init ==
    /\ session = "none"
    /\ inputAlive = FALSE
    /\ outputAlive = FALSE
    /\ strong = 0
    /\ eng = EngNull
    /\ images = <<>>
    /\ created = 0
    /\ dropped = 0
    /\ lastCall = "none"
    /\ lastResult = "None"
    /\ stream \in Streams
    /\ fed = 0
    /\ pc = "free"
    /\ images_count = 0
    /\ obs = ObsInit
    /\ peer = PeerInit
    /\ ffi = FfiIdle

Free == pc = "free" /\ UNCHANGED <<pc, images_count, peer>>

CallNewDecoder == \E ok \in BOOLEAN : new_decoder(ok) /\ Free
\* The pts and user_data of a push are opaque to every call but
\* Image::user_data; this caller passes 0 for both, as decode_h265 does.
CallPushData == \E n \in 1..MaxChunk : push_data(n, 0, 0) /\ Free
CallPushNal == push_nal(0, 0) /\ Free
CallFlushData == flush_data /\ Free
CallDecode == decode /\ Free
CallReset == reset /\ Free
CallNextPicture == next_picture /\ Free
UseImage == \E i \in 1..Len(images) : image_accessor(i) /\ Free
DropImage == \E i \in 1..Len(images) : drop_image(i) /\ Free
DropInput == drop_input /\ Free
DropOutput == drop_output /\ Free

Next ==
    \/ CallNewDecoder
    \/ CallPushData
    \/ CallPushNal
    \/ CallFlushData
    \/ CallDecode
    \/ CallReset
    \/ CallNextPicture
    \/ UseImage
    \/ DropImage
    \/ DropInput
    \/ DropOutput

Spec == Init /\ [][Next]_vars

(***************************************************************************)
(* A caller that tags its input: a push carries one of two user_data      *)
(* values, by the parity of the stream offset it starts at, both different *)
(* from its pts; pushes and decode steps interleave freely, and user_data  *)
(* is read from the Images.                                                *)
(***************************************************************************)
Tag(p) == (p % 2) + 1

TagPushData == \E n \in 1..MaxChunk : push_data(n, 0, Tag(fed)) /\ Free
TagPushNal == push_nal(0, Tag(fed)) /\ Free
ReadUserData == \E i \in 1..Len(images) : user_data(i) /\ Free

TaggedNext ==
    \/ CallNewDecoder
    \/ TagPushData
    \/ TagPushNal
    \/ CallFlushData
    \/ CallDecode
    \/ CallNextPicture
    \/ ReadUserData
    \/ DropImage

TaggedSpec == Init /\ [][TaggedNext]_vars

(***************************************************************************)
(* A caller that watches the input backlog: any call of the DecoderInput   *)
(* half, with number_of_input_bytes_pending() between them.                *)
(***************************************************************************)
QueryBytesPending == number_of_input_bytes_pending /\ Free

BacklogNext ==
    \/ CallNewDecoder
    \/ CallPushData
    \/ CallPushNal
    \/ CallFlushData
    \/ CallDecode
    \/ CallReset
    \/ QueryBytesPending

BacklogSpec == Init /\ [][BacklogNext]_vars

(***************************************************************************)
(* A caller of the DecoderInput half over an engine that may fail a push,  *)
(* a flush or a thread start: the engine fails the call with the fault     *)
(* that is due.                                                            *)
(***************************************************************************)
Faults == {"DE265_ERROR_OUT_OF_MEMORY"}

ThreadCounts == {1, i32_MAX + 1}

\* The engine runs into trouble: its next push, flush or thread start fails.
Fault ==
    /\ eng.handle = "live"
    /\ eng.fault = "DE265_OK"
    /\ \E c \in Faults : eng' = [eng EXCEPT !.fault = c]
    /\ UNCHANGED <<session, inputAlive, outputAlive, strong, images, created,
                   dropped, lastCall, lastResult, stream, ffi, fed, obs>>
    /\ Free

CallStartWorkerThreads ==
    \E n \in ThreadCounts : start_worker_threads(n) /\ Free

StatusNext ==
    \/ CallNewDecoder
    \/ CallPushData
    \/ CallPushNal
    \/ CallFlushData
    \/ CallDecode
    \/ CallStartWorkerThreads
    \/ Fault

StatusSpec == Init /\ [][StatusNext]_vars

(***************************************************************************)
(* The caller of tests/decoder.rs: decode_h265.  file.read may return any  *)
(* number of bytes from 1 up to the buffer length (here MaxChunk) until    *)
(* the file is exhausted, and 0 from then on.                              *)
(***************************************************************************)
DriverInit ==
    /\ session = "none"
    /\ inputAlive = FALSE
    /\ outputAlive = FALSE
    /\ strong = 0
    /\ eng = EngNull
    /\ images = <<>>
    /\ created = 0
    /\ dropped = 0
    /\ lastCall = "none"
    /\ lastResult = "None"
    /\ stream \in Streams
    /\ fed = 0
    /\ pc = "new"
    /\ images_count = 0
    /\ obs = ObsInit
    /\ peer = PeerInit
    /\ ffi = FfiIdle

\* let (mut input, mut output) = new_decoder().unwrap();
T_New ==
    /\ pc = "new"
    /\ \E ok \in BOOLEAN :
          /\ new_decoder(ok)
          /\ pc' = IF ok THEN "decode" ELSE "panic"
    /\ UNCHANGED <<images_count, peer>>

\* match input.decode() { .. }
T_Decode ==
    /\ pc = "decode"
    /\ decode
    /\ pc' = CASE lastResult' = "Done" -> "done"
               [] lastResult' \in {"HasImagesInBuffer", "ErrorImageBufferFull"} ->
                      "drain"
               [] lastResult' = "ErrorWaitingForInputData" -> "read"
               [] OTHER -> "panic"
    /\ UNCHANGED <<images_count, peer>>

\* while let Some(image) = output.next_picture() { images_count += 1; ..
T_NextPicture ==
    /\ pc = "drain"
    /\ next_picture
    /\ IF images' # <<>>
       THEN pc' = "body" /\ images_count' = images_count + 1
       ELSE pc' = "read" /\ UNCHANGED images_count
    /\ UNCHANGED peer

\* .. } the end of the loop body: `image` goes out of scope.
T_Body ==
    /\ pc = "body"
    /\ drop_image(1)
    /\ pc' = "drain"
    /\ UNCHANGED <<images_count, peer>>

\* file.read returned size > 0: input.push_data(&buf[0..size], 0, 0)
T_Push ==
    /\ pc = "read"
    /\ fed < Total(stream)
    /\ \E n \in 1..MaxChunk : push_data(n, 0, 0)
    /\ pc' = "decode"
    /\ UNCHANGED <<images_count, peer>>

T_Eof_NoFlush ==
    /\ pc = "read"
    /\ fed = Total(stream)
    /\ pc' = "decode"
    /\ lastCall' = "eof"
    /\ UNCHANGED <<session, inputAlive, outputAlive, strong, eng, images,
                   created, dropped, lastResult, stream, ffi, fed, images_count, obs,
                   peer>>

\* file.read returned 0: input.flush_data()
T_Eof ==
    /\ pc = "read"
    /\ fed = Total(stream)
    /\ flush_data
    /\ pc' = "decode"
    /\ UNCHANGED <<images_count, peer>>

\* The function returns: its locals are dropped in reverse order of
\* declaration, output before input.
T_DropOutput ==
    /\ pc = "done"
    /\ drop_output
    /\ pc' = "return"
    /\ UNCHANGED <<images_count, peer>>

T_DropInput ==
    /\ pc = "return"
    /\ drop_input
    /\ pc' = "exit"
    /\ UNCHANGED <<images_count, peer>>

DriverNext ==
    \/ T_New
    \/ T_Decode
    \/ T_NextPicture
    \/ T_Body
    \/ T_Push
    \/ T_Eof
    \/ T_DropOutput
    \/ T_DropInput

\* The test is sequential code: it always takes its next step.
DriverSpec == DriverInit /\ [][DriverNext]_vars /\ WF_vars(DriverNext)

(***************************************************************************)
(* Two sessions side by side: while the first runs decode_h265, a second   *)
(* one runs it too, on the same stream, through a decoder of its own.  The *)
(* steps of the two interleave in any order.                               *)
(***************************************************************************)
ContextShared(own, other) == other

\* new_decoder(): every call makes its own de265_new_decoder() call and
\* wraps the handle it got in a DecoderContext of its own.
ContextOf(own, other) == own

\* The native decoder behind the second session's handle.
PeerEngine == Enter(IF peer.handle = "main" THEN eng ELSE peer.eng)

\* A call of the second session: p is the session after it, e the decoder
\* behind its handle after it.
PeerCall(p, e) ==
    /\ peer' = IF peer.handle = "main" THEN p ELSE [p EXCEPT !.eng = e]
    /\ eng' = IF peer.handle = "main" THEN e ELSE eng
    /\ UNCHANGED <<session, inputAlive, outputAlive, strong, images, created,
                   dropped, lastCall, lastResult, stream, ffi, fed, pc,
                   images_count, obs>>

P_New ==
    /\ peer.pc = "new"
    /\ \E ok \in BOOLEAN :
          LET h == ContextOf("peer", "main")
          IN  peer' = IF ok
                      THEN [peer EXCEPT
                               !.pc = "decode",
                               !.handle = h,
                               !.eng = IF h = "peer"
                                       THEN de265_new_decoder(TRUE) ELSE @,
                               !.strong = StrongAfterClone(1)]
                      ELSE [peer EXCEPT !.pc = "panic"]
    /\ UNCHANGED <<session, inputAlive, outputAlive, strong, eng, images,
                   created, dropped, lastCall, lastResult, stream, ffi, fed, pc,
                   images_count, obs>>

P_Decode ==
    /\ peer.pc = "decode"
    /\ LET r   == de265_decode(PeerEngine)
           res == DecodeResult(r.status, r.more).kind
       IN  PeerCall([peer EXCEPT
                        !.lastResult = res,
                        !.pc = CASE res = "Done" -> "done"
                                 [] res \in {"HasImagesInBuffer",
                                             "ErrorImageBufferFull"} -> "drain"
                                 [] res = "ErrorWaitingForInputData" -> "read"
                                 [] OTHER -> "panic"],
                    r.eng)

P_NextPicture ==
    /\ peer.pc = "drain"
    /\ LET r   == next_picture_ffi(PeerEngine)
           opt == ImageOption(r.ptr)
       IN  PeerCall(IF opt # <<>>
                    THEN [peer EXCEPT !.images = opt,
                                      !.images_count = @ + 1,
                                      !.yielded = Append(@, opt[1].inner),
                                      !.pc = "body"]
                    ELSE [peer EXCEPT !.pc = "read"],
                    r.eng)

P_Body ==
    /\ peer.pc = "body"
    /\ PeerCall([peer EXCEPT !.images = <<>>, !.pc = "drain"],
                Image_drop(PeerEngine))

P_Push ==
    /\ peer.pc = "read"
    /\ peer.fed < Total(stream)
    /\ \E n \in 1..MaxChunk :
          /\ peer.fed + n <= Total(stream)
          /\ PeerCall([peer EXCEPT !.fed = @ + n, !.pc = "decode"],
                      push_data_ffi(PeerEngine, Bytes(stream, peer.fed, n), 0, 0))

P_Eof ==
    /\ peer.pc = "read"
    /\ peer.fed = Total(stream)
    /\ PeerCall([peer EXCEPT !.pc = "decode"], de265_flush_data(PeerEngine))

P_DropOutput ==
    /\ peer.pc = "done"
    /\ PeerCall([peer EXCEPT !.strong = @ - 1, !.pc = "return"],
                Rc_drop(peer.strong, PeerEngine))

P_DropInput ==
    /\ peer.pc = "return"
    /\ PeerCall([peer EXCEPT !.strong = @ - 1, !.pc = "exit"],
                Rc_drop(peer.strong, PeerEngine))

PeerNext ==
    \/ P_New
    \/ P_Decode
    \/ P_NextPicture
    \/ P_Body
    \/ P_Push
    \/ P_Eof
    \/ P_DropOutput
    \/ P_DropInput

ConcurrentNext == DriverNext \/ PeerNext

\* Each session is sequential code on a thread of its own.
ConcurrentSpec ==
    DriverInit /\ [][ConcurrentNext]_vars
        /\ WF_vars(DriverNext) /\ WF_vars(PeerNext)

(***************************************************************************)
(* Properties.                                                             *)
(***************************************************************************)
(* The conversions of native answers, apart from any session: one answer   *)
(* of the engine is drawn, and the safe layer's function is applied to it. *)
(***************************************************************************)
\* Native ints worth drawing: the ends of the range, the values around 0 and
\* the values around the largest u8.
c_int_samples ==
    {i32_MIN, i32_MIN + 1, i32_MAX - 1, i32_MAX}
        \cup ((0 - Edge)..Edge) \cup ((u8_MAX - Edge)..(u8_MAX + Edge))

Answer(fn, in) == [fn |-> fn, in |-> in, out |-> <<>>, done |-> FALSE]

\* The accessors that return value.max(0) as u32, and as usize.
U32Accessors ==
    {"width", "height", "bits_per_pixel", "highest_tid", "current_tid"}

UsizeAccessors ==
    {"number_of_input_bytes_pending", "number_of_nal_units_pending"}

\* The accessors that return c_int_to_u8(value).
U8Accessors ==
    {"nal_header.unit_type", "nal_header.layer_id", "nal_header.temporal_id",
     "colour_primaries", "transfer_characteristics", "matrix_coefficients"}

Answers ==
    {Answer("from_raw", [raw |-> c]) : c \in Codes}
        \cup {Answer("decode", [status |-> c, more |-> m]) :
                  c \in Codes, m \in c_int_samples}
        \cup {Answer(f, [value |-> v]) :
                  f \in U32Accessors \cup UsizeAccessors, v \in c_int_samples}
        \cup {Answer(f, [value |-> v, debug_assertions |-> d]) :
                  f \in U8Accessors, v \in c_int_samples, d \in BOOLEAN}
        \cup {Answer("plane", [channel |-> c, buf_is_null |-> b,
                               stride |-> st, height |-> h]) :
                  c \in DOMAIN Channel_index, b \in BOOLEAN,
                  st \in c_int_samples, h \in c_int_samples}

ConversionInit ==
    /\ session = "none"
    /\ inputAlive = FALSE
    /\ outputAlive = FALSE
    /\ strong = 0
    /\ eng = EngNull
    /\ images = <<>>
    /\ created = 0
    /\ dropped = 0
    /\ lastCall = "none"
    /\ lastResult = "None"
    /\ stream = [k \in 1..1 |-> 1]
    /\ fed = 0
    /\ pc = "convert"
    /\ images_count = 0
    /\ obs = ObsInit
    /\ peer = PeerInit
    /\ ffi \in Answers

Converted(fn, out) ==
    /\ ffi.fn = fn
    /\ ~ffi.done
    /\ ffi' = [ffi EXCEPT !.out = out, !.done = TRUE]
    /\ UNCHANGED <<session, inputAlive, outputAlive, strong, eng, images,
                   created, dropped, lastCall, lastResult, stream, fed, pc,
                   images_count, obs, peer>>

Apply_from_raw == Converted("from_raw", from_raw(ffi.in.raw))

Apply_decode == Converted("decode", DecodeResult(ffi.in.status, ffi.in.more))

Apply_max0_as_u32 ==
    \E f \in U32Accessors : Converted(f, max0_as_u32(ffi.in.value))

Apply_max0_as_usize ==
    \E f \in UsizeAccessors : Converted(f, max0_as_usize(ffi.in.value))

Apply_c_int_to_u8 ==
    \E f \in U8Accessors :
        Converted(f, c_int_to_u8(ffi.in.value, ffi.in.debug_assertions))

Apply_plane ==
    Converted("plane", plane(ffi.in.buf_is_null, ffi.in.stride, ffi.in.height))

ConversionNext ==
    \/ Apply_plane
    \/ Apply_from_raw
    \/ Apply_decode
    \/ Apply_max0_as_u32
    \/ Apply_max0_as_usize
    \/ Apply_c_int_to_u8

ConversionSpec == ConversionInit /\ [][ConversionNext]_vars

(***************************************************************************)

\* C1: for a session created by new_decoder, de265_free_decoder is called
\* exactly once, at the drop of the last remaining half: no call while a
\* half is alive, one call once both are gone, and never on a freed handle.
C1_FreedOnceAtLastDrop ==
    session = "created" =>
        /\ eng.nFree = (IF inputAlive \/ outputAlive THEN 0 ELSE 1)
        /\ (eng.handle = "freed") = (~inputAlive /\ ~outputAlive)
        /\ "de265_free_decoder" \notin eng.stale

C1_Witness ==
    /\ session = "created"
    /\ ~inputAlive /\ ~outputAlive
    /\ lastCall = "drop_output"
    /\ dropped > 0
    /\ eng.nFree = 1

\* C2: the handle is never freed while an Image is alive, and no Image's
\* release call is issued on a freed handle.
C2_NoFreeWhileImageAlive ==
    /\ images # <<>> => eng.handle = "live"
    /\ "de265_release_next_picture" \notin eng.stale

C2_Witness ==
    /\ ~inputAlive
    /\ lastCall = "drop_image"
    /\ eng.nRelease > 0
    /\ eng.handle = "live"

\* C3: while either half is alive the handle is live, and no call of any
\* kind made through a half or an Image reached a freed handle.
C3_SurvivingHalfUsable ==
    /\ (inputAlive \/ outputAlive) => eng.handle = "live"
    /\ eng.stale = {}

C3_Witness ==
    /\ ~inputAlive /\ outputAlive
    /\ lastCall = "image_accessor"
    /\ dropped > 0
    /\ eng.handle = "live"

\* C4: the engine has received exactly one release call per dropped Image,
\* every Image constructed is either alive or dropped, and so a
\* next_picture() that returned nothing has caused no release.
C4_ReleaseOncePerImage ==
    /\ eng.nRelease = dropped
    /\ created = dropped + Len(images)

C4_Witness ==
    /\ dropped >= 2
    /\ lastCall = "next_picture"
    /\ images = <<>>
    /\ eng.nRelease = 2

\* C5: under decode_h265, once decode() has returned Done the number of
\* Images yielded equals the number of frames of the stream, whatever the
\* stream and the sizes of the chunks read.
C5_AllFramesYielded ==
    lastResult = "Done" =>
        /\ images_count = Len(stream)
        /\ created = Len(stream)

C5_Witness ==
    /\ pc = "done"
    /\ Len(stream) = MaxFrames
    /\ images_count = MaxFrames

\* C6: a decode() that follows ErrorImageBufferFull and a complete drain of
\* the output (next_picture() returned nothing, every Image dropped) takes a
\* NAL unit off the queue: it is not refused again.
C6_RetryAfterDrainProgresses == obs.retry # "stuck"

C6_Witness ==
    /\ obs.retry = "progress"
    /\ lastCall = "decode"
    /\ lastResult = "HasImagesInBuffer"

\* C7: under decode_h265, decode() returns ErrorWaitingForInputData only
\* with no complete NAL unit queued and no end of stream signalled, and
\* after it the loop's push_data / flush_data and retry always lead to a
\* decode() that succeeds.
C7_WaitingRecovers ==
    /\ [](lastResult = "ErrorWaitingForInputData" /\ lastCall = "decode"
            => eng.nalQueue = <<>> /\ ~eng.eos)
    /\ ((lastResult = "ErrorWaitingForInputData")
            ~> (lastResult \in {"HasImagesInBuffer", "Done"}))

C7_Witness ==
    /\ pc = "drain"
    /\ lastResult = "HasImagesInBuffer"
    /\ ~eng.eos
    /\ fed > 0

\* C8: under decode_h265, once flush_data() has been called decode()
\* eventually returns Done, and when it does nothing is left in the engine:
\* no pending bytes, no queued NAL unit, no picture in the reorder buffer or
\* the output queue, so next_picture() returns nothing.
C8_FlushDrainsEverything ==
    /\ [](lastResult = "Done" =>
            /\ de265_get_number_of_input_bytes_pending(eng) = 0
            /\ de265_get_number_of_NAL_units_pending(eng) = 0
            /\ eng.reorder = <<>>
            /\ de265_peek_next_picture(eng) = NoPicture)
    /\ (eng.eos ~> (lastResult = "Done"))

C8_Witness ==
    /\ pc = "done"
    /\ eng.eos
    /\ fed = Total(stream)
    /\ dropped = MaxFrames

\* C9: every live Image refers to a picture still in the engine's output
\* queue, and every Image's release removed that Image's own picture.
C9_ResetKeepsImages ==
    /\ \A i \in 1..Len(images) :
           \E j \in 1..Len(eng.outQueue) : eng.outQueue[j] = images[i].inner
    /\ ~obs.misrelease

\* C10: a decode() made after decode() returned Done, with no push_data,
\* push_nal or flush_data in between, makes no further picture available.
C10_DoneIsFinal == obs.doneRetry # "more"

C10_Witness ==
    /\ obs.doneRetry = "same"
    /\ lastCall = "decode"
    /\ lastResult = "Done"
    /\ dropped > 0

\* C11: whenever decode() has just returned HasImagesInBuffer the decoded
\* picture buffer holds a picture for the caller: de265_peek_next_picture
\* is not null, so a next_picture() made now returns an Image.
C11_HasImagesMeansPicture ==
    lastCall = "decode" /\ lastResult = "HasImagesInBuffer"
        => ImageOption(de265_peek_next_picture(eng)) # <<>>

\* C12: a next_picture() made while the engine's output queue is empty
\* returns None (no Image is constructed), in every state: before any push,
\* after reset(), after the queue was drained, after Done.
C12_EmptyBufferGivesNone ==
    lastCall = "next_picture" /\ de265_peek_next_picture(eng) = NoPicture
        => images = <<>> /\ created = dropped

C12_Witness ==
    /\ lastCall = "next_picture"
    /\ de265_peek_next_picture(eng) = NoPicture
    /\ images = <<>>
    /\ lastResult = "Done"
    /\ dropped > 0

\* C13: at most one Image of the Output is alive at a time, the picture an
\* alive Image exposes is never replaced under it, and a next_picture()
\* yields an Image only when every Image yielded before it has been dropped
\* and its release call has reached the engine.
C13_NextOnlyAfterDrop ==
    /\ [](Len(images) <= 1)
    /\ [][/\ (images # <<>> /\ images' # <<>> => images' = images)
          /\ (created' > created => images = <<>> /\ eng.nRelease = created)]_vars

C13_Witness ==
    /\ lastCall = "next_picture"
    /\ Len(images) = 1
    /\ images[1].inner = 2
    /\ dropped = 1
    /\ eng.nRelease = 1

\* C15: the user_data read from an Image is the user_data passed to the
\* push_data or push_nal call that brought in the start of that picture's
\* NAL unit, whatever tags the pushes carry and however pushes and decode
\* steps interleave.
C15_UserDataRoundTrip ==
    lastCall = "user_data" =>
        /\ images # <<>>
        /\ obs.userData = obs.sent[images[1].inner]

C15_Witness ==
    /\ lastCall = "user_data"
    /\ images # <<>>
    /\ images[1].inner = 2
    /\ obs.userData = Tag(1)
    /\ obs.sent[1] = Tag(0)
    /\ obs.sent[2] = Tag(1)
    /\ dropped = 1

\* C16 as stated: a number_of_input_bytes_pending() returns what the
\* previous one returned whenever no push_data, push_nal or decode came
\* between the two.
C16_SameWithoutPushOrDecode == obs.repeat \notin {"differs", "differsQuiet"}

\* C16: a number_of_input_bytes_pending() returns what the previous one
\* returned whenever no other call of the DecoderInput (push_data, push_nal,
\* flush_data, decode, reset) came between the two, and the query leaves the
\* engine and the rest of the session as they were.
C16_QueryIdempotent ==
    /\ [](obs.repeat # "differsQuiet")
    /\ [][lastCall' = "number_of_input_bytes_pending" =>
            /\ Enter(eng') = Enter(eng)
            /\ UNCHANGED <<session, inputAlive, outputAlive, strong, images,
                           created, dropped, lastResult, stream, ffi, fed>>]_vars

C16_Witness ==
    /\ lastCall = "number_of_input_bytes_pending"
    /\ obs.repeat = "same"
    /\ obs.pendingSeen > 1
    /\ eng.nalQueue # <<>>

\* C17: with two sessions decoding the same stream side by side, in every
\* interleaving each session yields every frame of the stream, the second
\* one in the order 1, 2, .., as a session running alone does; a step of one
\* session leaves the other session and its decoder as they were, and each
\* decoder is freed once, by its own session.
C17_SessionsIndependent ==
    /\ [](/\ lastResult = "Done" =>
                images_count = Len(stream) /\ created = Len(stream)
          /\ peer.lastResult = "Done" =>
                /\ peer.images_count = Len(stream)
                /\ peer.yielded = [k \in 1..Len(stream) |-> k]
          /\ eng.nFree = (IF pc = "exit" THEN 1 ELSE 0)
          /\ peer.eng.nFree = (IF peer.pc = "exit" THEN 1 ELSE 0)
          /\ eng.stale = {} /\ peer.eng.stale = {})
    /\ [][/\ peer' # peer =>
                UNCHANGED <<session, inputAlive, outputAlive, strong, eng,
                            images, created, dropped, lastResult, fed, pc,
                            images_count>>
          /\ pc' # pc => peer' = peer]_vars

C17_Witness ==
    /\ pc = "body"
    /\ peer.pc = "body"
    /\ images_count = MaxFrames
    /\ peer.images_count = 1
    /\ peer.fed < fed

\* C18: when de265_new_decoder returns null, new_decoder() returns
\* ErrorLibraryInitializationFailed: no DecoderInput, no DecoderOutput and no
\* DecoderContext exist, and the engine receives no call at all, so no
\* de265_free_decoder.
C18_FailedInitCreatesNothing ==
    session # "none" /\ eng.handle = "null" =>
        /\ session = "failed"
        /\ obs.newDecoder = "ErrorLibraryInitializationFailed"
        /\ ~inputAlive /\ ~outputAlive
        /\ strong = 0
        /\ images = <<>>
        /\ eng = EngNull

C18_Witness ==
    /\ session = "failed"
    /\ lastCall = "new_decoder"
    /\ obs.newDecoder = "ErrorLibraryInitializationFailed"
    /\ eng.nFree = 0

\* C19: successive Images show successive entries of the engine's output
\* queue: every Image shows the head of the queue, and the only picture that
\* leaves the queue through this layer is the one the dropped Image had
\* shown, so that none is skipped and none shown again.
C19_OutputOrderKept ==
    /\ images # <<>> /\ lastCall = "next_picture" =>
           images[1].inner = de265_peek_next_picture(eng)
    /\ ~obs.skipped

\* C20: a push_data or push_nal only adds to the engine's input: the bytes
\* and NAL units pending do not shrink, the reorder buffer and the output
\* queue are what they were, so what next_picture() would return is the
\* same before and after the push, and no Image is touched.
C20_PushOnlyBuffers ==
    [][lastCall' \in {"push_data", "push_nal"} =>
          /\ eng'.reorder = eng.reorder
          /\ eng'.outQueue = eng.outQueue
          /\ ImageOption(de265_peek_next_picture(eng')) =
                 ImageOption(de265_peek_next_picture(eng))
          /\ de265_get_number_of_input_bytes_pending(eng') >=
                 de265_get_number_of_input_bytes_pending(eng)
          /\ de265_get_number_of_NAL_units_pending(eng') >=
                 de265_get_number_of_NAL_units_pending(eng)
          /\ images' = images]_vars

C20_Witness ==
    /\ lastCall = "push_data"
    /\ eng.outQueue # <<>>
    /\ eng.nalQueue # <<>>
    /\ eng.pending.bytes > 0

\* C21: a next_picture() leaves the engine as it was: the pending bytes, the
\* queued NAL units, the reorder buffer, the end-of-stream mark and the
\* output queue, the picture it returns included; that picture leaves the
\* output queue at the drop of its Image.
C21_NextPictureOnlyLooks ==
    [][/\ lastCall' = "next_picture" =>
            /\ eng'.pending = eng.pending
            /\ eng'.nalQueue = eng.nalQueue
            /\ eng'.reorder = eng.reorder
            /\ eng'.eos = eng.eos
            /\ eng'.outQueue = eng.outQueue
            /\ eng'.nRelease = eng.nRelease
            /\ UNCHANGED <<lastResult, fed>>
       /\ lastCall' = "drop_image" /\ eng.outQueue # <<>> =>
            eng'.outQueue = Tail(eng.outQueue)]_vars

C21_Witness ==
    /\ lastCall = "next_picture"
    /\ images # <<>>
    /\ eng.outQueue # <<>>
    /\ images[1].inner = Head(eng.outQueue)
    /\ eng.nalQueue # <<>>
    /\ eng.pending.bytes > 0

\* C22: decode() turns every answer (status, more) of the engine into its
\* result by the status first: DE265_OK gives Ok(HasImagesInBuffer) when
\* more > 0 and Ok(Done) when more <= 0, and any other status gives the Err
\* that from_raw maps it to, whatever more is; DE265_ERROR_IMAGE_BUFFER_FULL
\* and DE265_ERROR_WAITING_FOR_INPUT_DATA give their own kinds.
C22_DecodeMapsEveryPair ==
    ffi.fn = "decode" /\ ffi.done =>
        LET status == ffi.in.status
            more   == ffi.in.more
        IN  /\ status = "DE265_OK" /\ more > 0 =>
                  ffi.out = [ok |-> TRUE, kind |-> "HasImagesInBuffer",
                             code |-> NoCode]
            /\ status = "DE265_OK" /\ more <= 0 =>
                  ffi.out = [ok |-> TRUE, kind |-> "Done", code |-> NoCode]
            /\ status # "DE265_OK" =>
                  /\ ~ffi.out.ok
                  /\ ffi.out = from_raw(status)
                  /\ ffi.out.kind \notin {"Ok", "Done", "HasImagesInBuffer"}
            /\ status = "DE265_ERROR_IMAGE_BUFFER_FULL" =>
                  ffi.out.kind = "ErrorImageBufferFull"
            /\ status = "DE265_ERROR_WAITING_FOR_INPUT_DATA" =>
                  ffi.out.kind = "ErrorWaitingForInputData"

C22_Witness ==
    /\ ffi.fn = "decode"
    /\ ffi.done
    /\ ffi.in.status = "DE265_ERROR_IMAGE_BUFFER_FULL"
    /\ ffi.in.more > 0
    /\ ~ffi.out.ok
    /\ ffi.out.kind = "ErrorImageBufferFull"

\* C24: from_raw answers every status code, and answers it faithfully:
\* DE265_OK gives Ok(()); a code that an arm of the match names gives the
\* Err of that arm's kind, a kind that no other arm gives and that is
\* neither Unknown nor a success; a code that no arm names gives
\* Unknown(code) with that very code; only DE265_OK gives a success.
C24_FromRawTotalAndFaithful ==
    ffi.fn = "from_raw" /\ ffi.done =>
        LET raw == ffi.in.raw
        IN  /\ ffi.out.ok <=> raw = "DE265_OK"
            /\ raw = "DE265_OK" =>
                  ffi.out = [ok |-> TRUE, kind |-> "Ok", code |-> NoCode]
            /\ raw \in KnownCodes \ {"DE265_OK"} =>
                  \E i \in DOMAIN ErrorKinds :
                      /\ ErrorKinds[i][1] = raw
                      /\ ffi.out = [ok |-> FALSE, kind |-> ErrorKinds[i][2],
                                    code |-> NoCode]
                      /\ ffi.out.kind \notin {"Ok", "Unknown"}
                      /\ \A j \in DOMAIN ErrorKinds \ {i} :
                             /\ ErrorKinds[j][2] # ffi.out.kind
                             /\ ErrorKinds[j][1] # raw
            /\ raw \notin KnownCodes =>
                  ffi.out = [ok |-> FALSE, kind |-> "Unknown", code |-> raw]

C24_Witness ==
    /\ ffi.fn = "from_raw"
    /\ ffi.done
    /\ ffi.in.raw \in UnknownCodes
    /\ ffi.out.kind = "Unknown"
    /\ ffi.out.code = ffi.in.raw

\* The native call behind each API call that returns a status.
NativeOf ==
    [push_data |-> "de265_push_data", push_nal |-> "de265_push_NAL",
     flush_data |-> "de265_flush_data", decode |-> "de265_decode",
     start_worker_threads |-> "de265_start_worker_threads"]

\* C23: each decode(), push_data, push_nal, flush_data and
\* start_worker_threads makes one native call, its own, and returns what
\* from_raw makes of the status that this call returned: a success for
\* DE265_OK only, and the error of that status otherwise; a decode() that
\* returns ErrorImageBufferFull or ErrorWaitingForInputData has made its one
\* native call, and the engine's input, its NAL queue and its pictures are
\* as they were before the call.
C23_OneCallStatusReturned ==
    /\ [](lastCall \in DOMAIN NativeOf =>
            /\ Len(eng.calls) = 1
            /\ eng.calls[1].fn = NativeOf[lastCall]
            /\ LET status == eng.calls[1].ret
               IN  IF lastCall = "decode"
                   THEN /\ status = "DE265_OK" <=>
                               lastResult \in {"Done", "HasImagesInBuffer"}
                        /\ status # "DE265_OK" =>
                               lastResult = from_raw(status).kind
                   ELSE /\ obs.result.ok <=> status = "DE265_OK"
                        /\ obs.result = from_raw(status))
    /\ [][lastCall' = "decode"
            /\ lastResult' \in {"ErrorImageBufferFull",
                                "ErrorWaitingForInputData"} =>
               /\ eng'.pending = eng.pending
               /\ eng'.nalQueue = eng.nalQueue
               /\ eng'.reorder = eng.reorder
               /\ eng'.outQueue = eng.outQueue
               /\ eng'.eos = eng.eos]_vars

C23_Witness ==
    /\ lastCall = "decode"
    /\ lastResult = "ErrorImageBufferFull"
    /\ eng.calls = <<[fn |-> "de265_decode",
                      ret |-> "DE265_ERROR_IMAGE_BUFFER_FULL"]>>
    /\ eng.nalQueue # <<>>

\* C25: for every native value v, width, height, bits_per_pixel,
\* number_of_input_bytes_pending, number_of_nal_units_pending, highest_tid
\* and current_tid return max(v, 0), and the NAL header fields and the
\* colour metadata return v clamped to 0..255; no negative v comes out as a
\* large positive value.
C25_ClampedNeverWrapped ==
    ffi.done =>
        /\ ffi.fn \in U32Accessors \cup UsizeAccessors =>
              /\ ffi.out = (IF ffi.in.value > 0 THEN ffi.in.value ELSE 0)
              /\ ffi.in.value < 0 => ffi.out = 0
        /\ ffi.fn \in U8Accessors =>
              /\ ~ffi.out.panic
              /\ ffi.out.value =
                     (IF ffi.in.value < 0 THEN 0
                      ELSE IF ffi.in.value > 255 THEN 255 ELSE ffi.in.value)

\* C26: for every channel, the buffer that plane() returns is as long as the
\* stride it returns times height(channel); a null buffer from the engine
\* gives the empty buffer and stride 0; a negative native stride gives
\* stride 0 and the empty buffer; any other stride is returned as it is.
C26_PlaneLengthIsStrideTimesHeight ==
    ffi.fn = "plane" /\ ffi.done =>
        LET height == IF ffi.in.height > 0 THEN ffi.in.height ELSE 0
        IN  /\ ffi.out.len = ffi.out.stride * height
            /\ ffi.in.buf_is_null => ffi.out = [len |-> 0, stride |-> 0]
            /\ ffi.in.stride < 0 => ffi.out = [len |-> 0, stride |-> 0]
            /\ ~ffi.in.buf_is_null /\ ffi.in.stride >= 0 =>
                   ffi.out.stride = ffi.in.stride

C26_Witness ==
    /\ ffi.fn = "plane"
    /\ ffi.done
    /\ ~ffi.in.buf_is_null
    /\ ffi.in.stride < 0
    /\ ffi.in.height > 0
    /\ ffi.out = [len |-> 0, stride |-> 0]

====
